---------------------------- MODULE Spec2Model ----------------------------
(***************************************************************************)
(* Model of untis_bottle.py: the event merger join_events, the summary     *)
(* rewriter corrected_events with sanitize, the offset computation         *)
(* get_cohort_offset and the request handler untisconv with its fetch      *)
(* retry loop.                                                             *)
(*                                                                         *)
(* Each function has its own specification (SpecJoin, SpecWindow,          *)
(* SpecCorrected, SpecOffset, SpecFetch).  The variables of the functions  *)
(* a specification does not run stay at their idle values.                 *)
(***************************************************************************)
EXTENDS Integers, Sequences, FiniteSets

VARIABLES
    jpc,          \* join_events: position ("idle", "call", "loop", "done")
    events,       \* join_events: the argument, as passed in (values at call time)
    ev,           \* join_events: the event objects, mutated in place (index = identity)
    queue,        \* join_events: what is left of sorted(events), as object identities
    lastevents,   \* join_events: the candidate window, as object identities
    result,       \* join_events: the result list, as object identities
    merged,       \* join_events: identities thrown away by the loop (line 103, else branch)
    cpc,          \* corrected_events: position ("idle", "loop", "done", "raised")
    cal_in,       \* corrected_events: the calendar's subcomponents as passed in
    comps,        \* corrected_events: the event objects, mutated in place
    cnext,        \* corrected_events: index of the next subcomponent of the loop
    cevents,      \* corrected_events: the list `events`, as object identities
    opc,          \* get_cohort_offset: position ("idle", "call", "done")
    classname,    \* get_cohort_offset: the argument classname
    dtstamp,      \* get_cohort_offset: the argument dtstamp, its hour and minute
    offset,       \* get_cohort_offset: the value returned
    warned,       \* get_cohort_offset: whether logging.warning was called
    fpc,          \* untisconv: position ("idle", "request", "fetch", "sleep",
                  \*   "fetched", "responded", "aborted", "unhandled")
    query,        \* untisconv: request.query, its school, id and token
    ret_cnt,      \* untisconv: the local ret_cnt
    calls,        \* untisconv: how many times requests.get was called
    failed,       \* untisconv: how many of the calls raised a connection error
    joined,       \* untisconv: whether line 186 (rewrite and merge) was reached
    status,       \* untisconv: the status of the response (0: none set yet)
    body          \* untisconv: the body of the response

joinVars == <<jpc, events, ev, queue, lastevents, result, merged>>

corrVars == <<cpc, cal_in, comps, cnext, cevents>>

offVars == <<opc, classname, dtstamp, offset, warned>>

fetchVars == <<fpc, query, ret_cnt, calls, failed, joined, status, body>>

vars == <<joinVars, corrVars, offVars, fetchVars>>

---------------------------------------------------------------------------
(* The state of a function that is not running. *)

JoinIdle ==
    /\ jpc = "idle"
    /\ events = <<>>
    /\ ev = <<>>
    /\ queue = <<>>
    /\ lastevents = <<>>
    /\ result = <<>>
    /\ merged = {}

CorrIdle ==
    /\ cpc = "idle"
    /\ cal_in = <<>>
    /\ comps = <<>>
    /\ cnext = 1
    /\ cevents = <<>>

OffIdle ==
    /\ opc = "idle"
    /\ classname = "-"
    /\ dtstamp = [hour |-> 0, minute |-> 0]
    /\ offset = 0
    /\ warned = FALSE

FetchIdle ==
    /\ fpc = "idle"
    /\ query = [school |-> "", id |-> "", token |-> ""]
    /\ ret_cnt = 0
    /\ calls = 0
    /\ failed = 0
    /\ joined = FALSE
    /\ status = 0
    /\ body = ""

---------------------------------------------------------------------------
(* Bounds of the join_events inputs. *)

\* SpecJoin: inputs in any order, two summaries.
MaxEvents == 3
MaxTime == 3
\* SpecWindow: inputs long enough to overflow the window, one summary.
WinEvents == 7
WinTime == 2

Summaries == {"s1", "s2"}
WinSummaries == {"s1"}

\* An event as join_events reads it: DTSTART, DTEND, SUMMARY.  A parsed event
\* ends after it starts.
EventSet(T, S) ==
    { e \in [DTSTART : 0..T, DTEND : 0..T, SUMMARY : S] : e.DTEND > e.DTSTART }

RECURSIVE SeqsUpTo(_, _)
SeqsUpTo(S, n) ==
    IF n = 0 THEN { <<>> }
    ELSE LET shorter == SeqsUpTo(S, n - 1)
         IN  shorter \cup { Append(s, x) : s \in { t \in shorter : Len(t) = n - 1 }, x \in S }

Range(s) == { s[i] : i \in 1..Len(s) }

---------------------------------------------------------------------------
(* sanitize and corrected_events *)

\* Bounds of the corrected_events inputs.
MaxComps == 2
MaxText == 2

\* A text is a sequence of characters; a byte string is a sequence of byte
\* codes (two hex digits each).
Chars == {"a", " "}

Chr(b) ==
    CASE b = "61" -> "a"
      [] b = "62" -> "b"
      [] b = "20" -> " "
      [] b = "52" -> "R"
      [] b = "4D" -> "M"

\* bytes.decode("utf-8") on the ASCII byte strings of the model.
Decode(bytes) == [i \in 1..Len(bytes) |-> Chr(bytes[i])]

\* A decoded property value: a str, a bytes, or a list of bytes (a property
\* that occurs several times); Absent when the event has no such property.
Absent == [kind |-> "absent", text |-> <<>>, items |-> <<>>]
Str(t) == [kind |-> "str", text |-> t, items |-> <<>>]
Bytes(b) == [kind |-> "bytes", text |-> b, items |-> <<>>]
List(l) == [kind |-> "list", text |-> <<>>, items |-> l]

\* " ".join(result)
RECURSIVE JoinWithSpace(_)
JoinWithSpace(parts) ==
    IF parts = <<>> THEN <<>>
    ELSE IF Len(parts) = 1 THEN parts[1]
    ELSE parts[1] \o <<" ">> \o JoinWithSpace(Tail(parts))

\* Lines 48-53: drop an element equal to the one before it, decode the rest.
RECURSIVE DropRepeats(_, _, _)
DropRepeats(items, old_element, acc) ==
    IF items = <<>> THEN acc
    ELSE IF <<Head(items)>> # old_element
         THEN DropRepeats(Tail(items), <<Head(items)>>, Append(acc, Decode(Head(items))))
         ELSE DropRepeats(Tail(items), old_element, acc)

\* sanitize(item): the text it returns.
sanitize(item) ==
    IF item.kind = "list" THEN JoinWithSpace(DropRepeats(item.items, <<>>, <<>>))
    ELSE IF item.kind = "str" THEN item.text
    ELSE Decode(item.text)

\* str.split(): the whitespace-delimited tokens of a text.
RECURSIVE SplitFrom(_, _, _)
SplitFrom(t, cur, acc) ==
    IF t = <<>> THEN (IF cur = <<>> THEN acc ELSE Append(acc, cur))
    ELSE IF Head(t) = " "
         THEN SplitFrom(Tail(t), <<>>, IF cur = <<>> THEN acc ELSE Append(acc, cur))
         ELSE SplitFrom(Tail(t), Append(cur, Head(t)), acc)

split(t) == SplitFrom(t, <<>>, <<>>)

unbekannt == <<"u", "n", "b", "e", "k", "a", "n", "n", "t">>

\* event.decoded(name, default)
decoded(value, default) == IF value = Absent THEN Str(default) ELSE value

\* "%s %s (%s)" % (classname, subject, location)
FormatSummary(cname, subject, location) ==
    cname \o <<" ">> \o subject \o <<" ", "(">> \o location \o <<")">>

\* Lines 79-83: del event['description'] raises KeyError when the event has
\* no description and the handler passes, so del event['location'] is not
\* run; with a description, both are removed (a KeyError of the second del
\* is passed too).
DelFields(e) ==
    IF e.description = Absent THEN e
    ELSE [e EXCEPT !.description = Absent, !.location = Absent]

\* Line 72 raises IndexError when the description has no token.
RaisesIndexError(e) ==
    e.description # Absent /\ split(sanitize(e.description)) = <<>>

\* Lines 69-84 for one event that does not raise.
CorrectedEvent(e) ==
    LET cname == IF e.description # Absent
                 THEN split(sanitize(e.description))[1]
                 ELSE <<"-">>
        location == sanitize(decoded(e.location, unbekannt))
        subject == sanitize(decoded(e.summary, unbekannt))
    IN  [DelFields(e) EXCEPT !.classname = cname,
                             !.summary = Str(FormatSummary(cname, subject, location))]

\* Lines 68-86: one iteration of the loop over cal_in.subcomponents.
CorrectedIter ==
    /\ cpc = "loop"
    /\ cnext <= Len(comps)
    /\ IF RaisesIndexError(comps[cnext])
       THEN /\ cpc' = "raised"
            /\ UNCHANGED <<comps, cnext, cevents>>
       ELSE /\ comps' = [comps EXCEPT ![cnext] = CorrectedEvent(comps[cnext])]
            /\ cevents' = Append(cevents, cnext)
            /\ cnext' = cnext + 1
            /\ UNCHANGED cpc
    /\ UNCHANGED cal_in
    /\ UNCHANGED <<joinVars, offVars, fetchVars>>

\* Line 87.
CorrectedReturn ==
    /\ cpc = "loop"
    /\ cnext > Len(comps)
    /\ cpc' = "done"
    /\ UNCHANGED <<cal_in, comps, cnext, cevents>>
    /\ UNCHANGED <<joinVars, offVars, fetchVars>>

RECURSIVE TextsUpTo(_)
TextsUpTo(n) ==
    IF n = 0 THEN { <<>> }
    ELSE LET shorter == TextsUpTo(n - 1)
         IN  shorter \cup { Append(t, c) : t \in { u \in shorter : Len(u) = n - 1 }, c \in Chars }

\* The descriptions: none, every text of at most MaxText characters, a bytes
\* value and a property that occurs three times.
Descriptions ==
    {Absent} \cup { Str(t) : t \in TextsUpTo(MaxText) }
             \cup { Bytes(<<"62", "20", "61">>), List(<< <<"61">>, <<"61">>, <<"62">> >>) }

Locations == {Absent, List(<< <<"52">>, <<"52">> >>)}

Subjects == {Absent, Bytes(<<"4D">>)}

\* An event as corrected_events reads it; classname is the attribute line 77
\* attaches (empty until then).
Components ==
    [description : Descriptions, location : Locations, summary : Subjects,
     classname : {<<>>}]

CorrNext == CorrectedIter \/ CorrectedReturn

InitCorrected ==
    /\ \E input \in SeqsUpTo(Components, MaxComps) :
           /\ cal_in = input
           /\ comps = input
    /\ cpc = "loop"
    /\ cnext = 1
    /\ cevents = <<>>
    /\ JoinIdle
    /\ OffIdle
    /\ FetchIdle

SpecCorrected == InitCorrected /\ [][CorrNext]_vars

---------------------------------------------------------------------------
(* join_events *)

\* sorted(events, key=lambda x: x.decoded('DTSTART')): a stable sort of the
\* object identities ids by the start time in heap h.
SortInsert(h, s, x) ==
    LET pos == Cardinality({ i \in 1..Len(s) : h[s[i]].DTSTART <= h[x].DTSTART })
    IN  SubSeq(s, 1, pos) \o <<x>> \o SubSeq(s, pos + 1, Len(s))

RECURSIVE SortedInto(_, _, _)
SortedInto(h, acc, ids) ==
    IF ids = <<>> THEN acc
    ELSE SortedInto(h, SortInsert(h, acc, Head(ids)), Tail(ids))

SortedByStartUnsorted(h, ids) == ids

SortedByStart(h, ids) == SortedInto(h, <<>>, ids)

\* The condition of lines 97-98.
IsMatchNoSummary(h, last, e) == h[last].DTEND = h[e].DTSTART

IsMatch(h, last, e) ==
    /\ h[last].DTEND = h[e].DTSTART
    /\ h[last].SUMMARY = h[e].SUMMARY

\* The scan of lines 96-101: the positions of the window that match; the
\* loop breaks at the first.
Matches(h, win, e) == { i \in 1..Len(win) : IsMatch(h, win[i], e) }

FirstMatch(h, win, e) ==
    CHOOSE i \in Matches(h, win, e) : \A j \in Matches(h, win, e) : i <= j

\* lastevents[-4:] + [event]
PushWindowUnlimited(win, e) == win \o <<e>>

PushWindowShort(win, e) ==
    (IF Len(win) <= 3 THEN win ELSE SubSeq(win, Len(win) - 2, Len(win))) \o <<e>>

PushWindow(win, e) ==
    (IF Len(win) <= 4 THEN win ELSE SubSeq(win, Len(win) - 3, Len(win))) \o <<e>>

\* lastevent['DTEND'] = event['DTEND']
ExtendNoOp(h, last, e) == h

Extend(h, last, e) == [h EXCEPT ![last].DTEND = h[e].DTEND]

\* Lines 92-94: the lists are created and the argument is sorted.
JoinStart ==
    /\ jpc = "call"
    /\ queue' = SortedByStart(ev, [i \in 1..Len(events) |-> i])
    /\ lastevents' = <<>>
    /\ result' = <<>>
    /\ jpc' = "loop"
    /\ UNCHANGED <<events, ev, merged>>
    /\ UNCHANGED <<corrVars, offVars, fetchVars>>

\* Lines 94-105: one iteration of the loop over the sorted events.
JoinIter ==
    /\ jpc = "loop"
    /\ queue # <<>>
    /\ LET event == Head(queue)
       IN  IF Matches(ev, lastevents, event) # {}
           THEN /\ ev' = Extend(ev, lastevents[FirstMatch(ev, lastevents, event)], event)
                /\ merged' = merged \cup {event}
                /\ UNCHANGED <<result, lastevents>>
           ELSE /\ result' = Append(result, event)
                /\ lastevents' = PushWindow(lastevents, event)
                /\ UNCHANGED <<ev, merged>>
    /\ queue' = Tail(queue)
    /\ UNCHANGED <<jpc, events>>
    /\ UNCHANGED <<corrVars, offVars, fetchVars>>

\* Line 107.
JoinReturn ==
    /\ jpc = "loop"
    /\ queue = <<>>
    /\ jpc' = "done"
    /\ UNCHANGED <<events, ev, queue, lastevents, result, merged>>
    /\ UNCHANGED <<corrVars, offVars, fetchVars>>

JoinCall(input) ==
    /\ jpc = "call"
    /\ events = input
    /\ ev = input
    /\ queue = <<>>
    /\ lastevents = <<>>
    /\ result = <<>>
    /\ merged = {}

JoinNext == JoinStart \/ JoinIter \/ JoinReturn

\* join_events on every list of at most MaxEvents events, in every order.
InitJoin ==
    /\ \E input \in SeqsUpTo(EventSet(MaxTime, Summaries), MaxEvents) : JoinCall(input)
    /\ CorrIdle
    /\ OffIdle
    /\ FetchIdle

SpecJoin == InitJoin /\ [][JoinNext]_vars

\* join_events on lists of up to WinEvents events, given in start order.
IsStartOrdered(s) == \A i \in 1..(Len(s) - 1) : s[i].DTSTART <= s[i + 1].DTSTART

RECURSIVE StartOrderedSeqs(_, _)
StartOrderedSeqs(S, n) ==
    IF n = 0 THEN { <<>> }
    ELSE LET shorter == StartOrderedSeqs(S, n - 1)
             longest == { t \in shorter : Len(t) = n - 1 }
         IN  shorter \cup
             { s \in { Append(t, x) : t \in longest, x \in S } : IsStartOrdered(s) }

InitWindow ==
    /\ \E input \in StartOrderedSeqs(EventSet(WinTime, WinSummaries), WinEvents) :
           JoinCall(input)
    /\ CorrIdle
    /\ OffIdle
    /\ FetchIdle

SpecWindow == InitWindow /\ [][JoinNext]_vars

---------------------------------------------------------------------------
(* get_cohort_offset *)

Cohort1 ==
    { "BOTENA", "CTA19", "CTA20", "CT19", "CT20", "DQM18", "DQM19",
      "DQM20", "I20", "MA19", "MA20", "N20", "OPT18", "OPT19A", "OPT19B",
      "OPT20A", "OPT20B", "PHY19", "PHY20", "ST18A", "ST18B", "ST19B",
      "ST19C", "ST19A", "ST20A", "ST20B", "PTA19", "PTA20A", "PTA20B",
      "CTA21", "DQM21", "I21", "MA21", "N21", "OPT21", "PHY21", "ST21A",
      "ST21B", "ST21C", "PTA21A", "PTA21B" }

Cohort2 ==
    { "DQI17", "DQI18", "DQI19", "DQI20", "DSIH18", "DSIH19A", "DSIH19B",
      "DSIH20A", "DSIH20B", "DSIU18", "DSIU19", "DSIU20", "FA18A", "FA18B",
      "FA18C", "FA18D", "FA19A", "FA19B", "FA19C", "FA19D", "FA20A",
      "FA20B", "FA20C", "FA20D", "FS18A", "FS18B", "FS18C", "FS19A",
      "FS19B", "FS19C", "FSE19D", "FS20A", "FS20B", "FS20C", "FS20D",
      "FSE20", "KIDM20", "SIK18", "SIK19", "W20A", "W20B", "DQI21",
      "DSIH21", "DSIU21", "FA21A", "FA21B", "FA21C", "FA21D", "FS21A",
      "FS21B", "FS21C", "FS21D", "FSE21", "KIDM21", "W21A", "W21B" }

Cohort3 ==
    { "BLLAB18", "BLLAB19", "BLLAB20", "BOT20", "BOW20", "BTA19", "BTA20",
      "DQF17", "DQF18", "DQF19", "DQF20", "F19", "F20", "FAMI18", "FAMI19",
      "FAMI20", "ITA19", "ITA20", "IV19", "IV20", "LAB18", "LAB19",
      "LAB20", "BLLAB21", "BOT21", "BOW21", "BTA21", "DQF21", "F21",
      "FAMI21", "ITA21", "IV21", "LAB21" }

\* dict.update: an entry of the argument replaces one of the dict.
Update(d, u) == [k \in DOMAIN d \cup DOMAIN u |-> IF k \in DOMAIN u THEN u[k] ELSE d[k]]

cohort_class_map ==
    Update(Update([c \in Cohort1 |-> 1], [c \in Cohort2 |-> 2]), [c \in Cohort3 |-> 3])

cohort_minutes_map == [i \in {1, 2, 3} |-> CASE i = 1 -> -15 [] i = 2 -> 0 [] i = 3 -> 15]

\* The list of line 126.
BreakTable ==
    << <<10, 0>>, <<11, 50>>, <<13, 40>>, <<15, 30>>, <<15, 30>>, <<17, 20>>, <<17, 20>> >>

\* dtstamp.time() >= datetime.time(*t, tzinfo=tz): the order of times of day
\* (tz a zone with daylight saving: its utcoffset(None) is None and both
\* sides compare as naive times).
TimeAfter(d, t) ==
    \/ d.hour > t[1]
    \/ d.hour = t[1] /\ d.minute > t[2]

TimeAtOrAfter(d, t) ==
    \/ d.hour > t[1]
    \/ d.hour = t[1] /\ d.minute >= t[2]

\* Lines 126-128: the loop over the table, from entry i on.
RECURSIVE BreakLoop(_, _, _)
BreakLoop(d, i, off) ==
    IF i > Len(BreakTable) THEN off
    ELSE BreakLoop(d, i + 1, IF TimeAtOrAfter(d, BreakTable[i]) THEN off - 5 ELSE off)

\* Line 113: the class is neither a placeholder nor in the map.
IsUnknownClass(c) == c \notin {"None", "-"} /\ c \notin DOMAIN cohort_class_map

\* get_cohort_offset(classname, dtstamp): the value returned.
get_cohort_offset(c, d) ==
    IF IsUnknownClass(c) /\ c = "Loos" THEN 0
    ELSE BreakLoop(d, 1, IF c \in DOMAIN cohort_class_map
                         THEN 0 + cohort_minutes_map[cohort_class_map[c]]
                         ELSE 0)

GetCohortOffset ==
    /\ opc = "call"
    /\ offset' = get_cohort_offset(classname, dtstamp)
    /\ warned' = (IsUnknownClass(classname) /\ classname # "Loos")
    /\ opc' = "done"
    /\ UNCHANGED <<classname, dtstamp>>
    /\ UNCHANGED <<joinVars, corrVars, fetchVars>>

\* The classnames tried: the placeholders, the exempt label, an unmapped
\* class and one class of each cohort.
ClassNames == {"-", "None", "Loos", "XYZ", "MA19", "DQI17", "F19"}

OffNext == GetCohortOffset

InitOffset ==
    /\ opc = "call"
    /\ classname \in ClassNames
    /\ dtstamp \in [hour : 0..23, minute : 0..59]
    /\ offset = 0
    /\ warned = FALSE
    /\ JoinIdle
    /\ CorrIdle
    /\ FetchIdle

SpecOffset == InitOffset /\ [][OffNext]_vars

---------------------------------------------------------------------------
(* untisconv *)

retry_counter == 10

\* all([school, userid, token]): an empty string is false.
AnyGiven(q) == q.school # "" \/ q.id # "" \/ q.token # ""

AllGiven(q) == q.school # "" /\ q.id # "" /\ q.token # ""

\* Line 182: the last attempt was consumed.
ExhaustedEarly(cnt) == cnt = 1

Exhausted(cnt) == cnt = 0

\* Lines 168-169: abort(510, "invalid query") raises before the URL is built.
Reject ==
    /\ fpc = "request"
    /\ ~AllGiven(query)
    /\ status' = 510
    /\ body' = "invalid query"
    /\ fpc' = "aborted"
    /\ UNCHANGED <<query, ret_cnt, calls, failed, joined>>
    /\ UNCHANGED <<joinVars, corrVars, offVars>>

\* Lines 172-174.
Accept ==
    /\ fpc = "request"
    /\ AllGiven(query)
    /\ ret_cnt' = retry_counter
    /\ fpc' = "fetch"
    /\ UNCHANGED <<query, calls, failed, joined, status, body>>
    /\ UNCHANGED <<joinVars, corrVars, offVars>>

\* Lines 175-179: an attempt that returns a calendar; break.
FetchOk ==
    /\ fpc = "fetch"
    /\ ret_cnt > 0
    /\ ret_cnt' = ret_cnt - 1
    /\ calls' = calls + 1
    /\ fpc' = "fetched"
    /\ UNCHANGED <<query, failed, joined, status, body>>
    /\ UNCHANGED <<joinVars, corrVars, offVars>>

\* Lines 175-184: an attempt that raises ConnectionResetError or
\* ConnectionError; after the last one the handler returns ''.
FetchConnectionError ==
    /\ fpc = "fetch"
    /\ ret_cnt > 0
    /\ ret_cnt' = ret_cnt - 1
    /\ calls' = calls + 1
    /\ failed' = failed + 1
    /\ IF Exhausted(ret_cnt')
       THEN /\ status' = 500
            /\ body' = ""
            /\ fpc' = "responded"
       ELSE /\ fpc' = "sleep"
            /\ UNCHANGED <<status, body>>
    /\ UNCHANGED <<query, joined>>
    /\ UNCHANGED <<joinVars, corrVars, offVars>>

\* Lines 175-178: an attempt that raises anything else; it leaves the handler.
FetchOtherError ==
    /\ fpc = "fetch"
    /\ ret_cnt > 0
    /\ ret_cnt' = ret_cnt - 1
    /\ calls' = calls + 1
    /\ fpc' = "unhandled"
    /\ UNCHANGED <<query, failed, joined, status, body>>
    /\ UNCHANGED <<joinVars, corrVars, offVars>>

\* Line 185, then the loop condition of line 175.
Sleep ==
    /\ fpc = "sleep"
    /\ fpc' = "fetch"
    /\ UNCHANGED <<query, ret_cnt, calls, failed, joined, status, body>>
    /\ UNCHANGED <<joinVars, corrVars, offVars>>

\* Lines 186-198: the events are rewritten and merged, the calendar is
\* serialised and returned.
Respond ==
    /\ fpc = "fetched"
    /\ joined' = TRUE
    /\ status' = 200
    /\ body' = "calendar"
    /\ fpc' = "responded"
    /\ UNCHANGED <<query, ret_cnt, calls, failed>>
    /\ UNCHANGED <<joinVars, corrVars, offVars>>

\* Lines 186-196: the rewrite, the merge or the copy of the calendar
\* properties raises (line 72 on a description without a token); it leaves
\* the handler.
RespondRaises ==
    /\ fpc = "fetched"
    /\ joined' = TRUE
    /\ fpc' = "unhandled"
    /\ UNCHANGED <<query, ret_cnt, calls, failed, status, body>>
    /\ UNCHANGED <<joinVars, corrVars, offVars>>

\* A query parameter that is not given reads as the empty string.
ParamValues == {"", "a", "b"}

FetchNext ==
    \/ Reject
    \/ Accept
    \/ FetchOk
    \/ FetchConnectionError
    \/ FetchOtherError
    \/ Sleep
    \/ Respond
    \/ RespondRaises

InitFetch ==
    /\ fpc = "request"
    /\ query \in [school : ParamValues, id : ParamValues, token : ParamValues]
    /\ ret_cnt = 0
    /\ calls = 0
    /\ failed = 0
    /\ joined = FALSE
    /\ status = 0
    /\ body = ""
    /\ JoinIdle
    /\ CorrIdle
    /\ OffIdle

SpecFetch == InitFetch /\ [][FetchNext]_vars

---------------------------------------------------------------------------
(* Properties of corrected_events *)

\* C2 as stated: every processed event has a non-empty summary and neither a
\* description nor a location, whichever of the two the input event had.
C2_DescriptionAndLocationRemoved ==
    \A e \in Range(cevents) :
        /\ comps[e].summary.kind = "str"
        /\ comps[e].summary.text # <<>>
        /\ comps[e].description = Absent
        /\ comps[e].location = Absent

FirstToken(t) == IF split(t) = <<>> THEN <<>> ELSE split(t)[1]

TextOr(value, default) == IF value = Absent THEN default ELSE sanitize(value)

\* C7 as stated: processing completes for every event, also for one whose
\* description is empty or only whitespace; the classname is the first token
\* of the sanitized description, or "-" without a description, and the
\* summary is "<classname> <subject> (<location>)" with "unbekannt" for a
\* missing subject or location.
C7_ClassnameForEveryEvent ==
    /\ cpc # "raised"
    /\ \A e \in Range(cevents) :
           /\ comps[e].classname =
                  IF cal_in[e].description = Absent THEN <<"-">>
                  ELSE FirstToken(sanitize(cal_in[e].description))
           /\ comps[e].summary =
                  Str(comps[e].classname \o <<" ">> \o TextOr(cal_in[e].summary, unbekannt)
                      \o <<" ", "(">> \o TextOr(cal_in[e].location, unbekannt) \o <<")">>)

---------------------------------------------------------------------------
(* Properties of get_cohort_offset *)

CohortTerm(c) ==
    IF c \in Cohort1 THEN -15 ELSE IF c \in Cohort2 THEN 0 ELSE IF c \in Cohort3 THEN 15 ELSE 0

MinuteOfDay(h, m) == h * 60 + m

BreaksPassed(d) ==
    Cardinality({ i \in 1..Len(BreakTable) :
                    MinuteOfDay(BreakTable[i][1], BreakTable[i][2])
                        <= MinuteOfDay(d.hour, d.minute) })

---------------------------------------------------------------------------
(* Properties of untisconv *)

RequestOver == fpc \in {"responded", "aborted", "unhandled"}

MissingParam == query.school = "" \/ query.id = "" \/ query.token = ""

\* C4: a request with school, id or token missing or empty is rejected with
\* a status that is not 2xx, and no fetch is ever made for it.
C4_MissingParamRejected ==
    MissingParam =>
        /\ calls = 0
        /\ fpc \in {"request", "aborted"}
        /\ fpc = "aborted" => (status >= 300 /\ body # "")

\* C4 witness: a request with only the token missing was rejected.
C4_Witness ==
    /\ fpc = "aborted"
    /\ query.school # ""
    /\ query.id # ""
    /\ query.token = ""
    /\ status = 510

---------------------------------------------------------------------------
(* Properties of join_events *)

Ids == 1..Len(events)

Output == { ev[r] : r \in Range(result) }

Occurrences(e) == Cardinality({ i \in 1..Len(result) : result[i] = e })

\* a and b are two input events with the same summary, b starting exactly
\* when a ends.
Adjacent(a, b) ==
    /\ a # b
    /\ events[a].SUMMARY = events[b].SUMMARY
    /\ events[a].DTEND = events[b].DTSTART

\* c comes before d in the stable start-time order of the input.
SortsBefore(c, d) ==
    \/ events[c].DTSTART < events[d].DTSTART
    \/ events[c].DTSTART = events[d].DTSTART /\ c < d

InBetween(a, b) == { c \in Ids : SortsBefore(a, c) /\ SortsBefore(c, b) }

\* No third input event with the summary of a and b ends where a starts,
\* starts or ends where b starts, or starts where b ends.
Untouched(a, b) ==
    \A c \in Ids \ {a, b} :
        events[c].SUMMARY = events[a].SUMMARY =>
            /\ events[c].DTEND # events[a].DTSTART
            /\ events[c].DTSTART # events[b].DTSTART
            /\ events[c].DTEND # events[b].DTSTART
            /\ events[c].DTSTART # events[b].DTEND

\* C1 as stated: for every pair of input events A and B with identical
\* summary where A's end equals B's start, the output holds an event from
\* A.start to B.end with A's summary and B is not an output event.
C1_EveryAdjacentPairMerged ==
    jpc = "done" =>
        \A a, b \in Ids :
            Adjacent(a, b) =>
                /\ \E o \in Output :
                       /\ o.DTSTART = events[a].DTSTART
                       /\ o.DTEND = events[b].DTEND
                       /\ o.SUMMARY = events[a].SUMMARY
                /\ b \notin Range(result)

\* C1 amended: the pair A, B is merged into one output event from A.start to
\* B.end with A's summary, and B is not an output event, when no third event
\* with that summary ends where A starts, starts or ends where B starts, or
\* starts where B ends, and at most four events lie between A and B in the
\* start-time order.
C1_UntouchedNearPairMerged ==
    jpc = "done" =>
        \A a, b \in Ids :
            (Adjacent(a, b) /\ Untouched(a, b) /\ Cardinality(InBetween(a, b)) <= 4) =>
                /\ Occurrences(a) = 1
                /\ ev[a].DTSTART = events[a].DTSTART
                /\ ev[a].DTEND = events[b].DTEND
                /\ ev[a].SUMMARY = events[a].SUMMARY
                /\ b \notin Range(result)

\* C1 witness: a pair merged across four events that lie between them.
C1_Witness ==
    /\ jpc = "done"
    /\ \E a, b \in Ids :
           /\ Adjacent(a, b)
           /\ Untouched(a, b)
           /\ Cardinality(InBetween(a, b)) = 4
           /\ ev[a].DTEND = events[b].DTEND
           /\ b \in merged

\* e has no other input event with its summary that ends where e starts or
\* starts where e ends.
NoNeighbour(e) ==
    \A c \in Ids \ {e} :
        events[c].SUMMARY = events[e].SUMMARY =>
            /\ events[c].DTEND # events[e].DTSTART
            /\ events[c].DTSTART # events[e].DTEND

\* C5: an input event with no same-summary neighbour in time is in the
\* output exactly once, with its start, end and summary unchanged.
C5_NoNeighbourIdentity ==
    jpc = "done" =>
        \A e \in Ids :
            NoNeighbour(e) => (Occurrences(e) = 1 /\ ev[e] = events[e])

\* C5 witness: an event without a neighbour passes through a run that merges
\* two other events, and it touches an event of another summary.
C5_Witness ==
    /\ jpc = "done"
    /\ merged # {}
    /\ \E e \in Ids :
           /\ NoNeighbour(e)
           /\ e \in Range(result)
           /\ \E c \in Ids : events[c].DTEND = events[e].DTSTART

\* The input is a chain: k >= 2 events with one summary that can be put in
\* an order in which each starts exactly when the previous one ends.
IsChain ==
    /\ Len(events) >= 2
    /\ \A i \in Ids : events[i].SUMMARY = events[1].SUMMARY
    /\ \E p \in [Ids -> Ids] :
           /\ \A i, j \in Ids : p[i] = p[j] => i = j
           /\ \A i \in 1..(Len(events) - 1) :
                  events[p[i]].DTEND = events[p[i + 1]].DTSTART

MinStart == CHOOSE t \in { events[i].DTSTART : i \in Ids } :
                \A i \in Ids : t <= events[i].DTSTART

MaxEnd == CHOOSE t \in { events[i].DTEND : i \in Ids } :
              \A i \in Ids : t >= events[i].DTEND

\* C6: a chain of k >= 2 events, in any input order, gives exactly one
\* output event, from the first start to the last end.
C6_ChainCollapses ==
    (jpc = "done" /\ IsChain) =>
        /\ Len(result) = 1
        /\ ev[result[1]] = [DTSTART |-> MinStart, DTEND |-> MaxEnd,
                            SUMMARY |-> events[1].SUMMARY]

\* C6 witness: a chain of three events given out of start order is one block.
C6_Witness ==
    /\ jpc = "done"
    /\ IsChain
    /\ Len(events) = 3
    /\ events[1].DTSTART > events[2].DTSTART
    /\ Len(result) = 1
    /\ ev[result[1]].DTEND - ev[result[1]].DTSTART = 3

Covers(e, t) == e.DTSTART <= t /\ t < e.DTEND

InputCovers(s, t) == \E i \in Ids : events[i].SUMMARY = s /\ Covers(events[i], t)

OutputCovers(s, t) == \E o \in Output : o.SUMMARY = s /\ Covers(o, t)

\* Every summary and every end time of an input or an output event.
SummariesSeen == { events[i].SUMMARY : i \in Ids } \cup { o.SUMMARY : o \in Output }

EndsSeen == { events[i].DTEND : i \in Ids } \cup { o.DTEND : o \in Output }

\* C10: for every summary, the output events with that summary cover exactly
\* the time the input events with that summary cover.
C10_CoveragePreserved ==
    jpc = "done" =>
        \A s \in SummariesSeen : \A e \in EndsSeen : \A t \in 0..e :
            InputCovers(s, t) <=> OutputCovers(s, t)

\* C10 witness: a run that merged an event and kept two output events.
C10_Witness ==
    /\ jpc = "done"
    /\ merged # {}
    /\ Len(result) >= 2

LastOf(s, n) == IF Len(s) <= n THEN s ELSE SubSeq(s, Len(s) - n + 1, Len(s))

\* C9: after each event is processed the window holds at most 5 events and is
\* the last min(5, |result|) events of the result in the order appended; a
\* merged event is in neither list.
C9_WindowIsResultTail ==
    jpc \in {"loop", "done"} =>
        /\ Len(lastevents) <= 5
        /\ lastevents = LastOf(result, 5)
        /\ merged \cap (Range(result) \cup Range(lastevents)) = {}
        /\ merged \cup Range(result) \cup Range(queue) = Ids

\* C9 witness: six events were emitted, so the window dropped one, and an
\* event was merged after that.
C9_Witness ==
    /\ jpc = "done"
    /\ Len(result) = 6
    /\ Len(lastevents) = 5
    /\ \E m \in merged : \A r \in Range(result) : SortsBefore(r, m)

===========================================================================
